---- MODULE Spec2Model ----
(***************************************************************************)
(* Model of src/app.js: the WhatsApp webhook relay.                        *)
(*                                                                         *)
(* Every POST /webhook runs as one task of the single-threaded event loop. *)
(* A task runs atomically from one await to the next, so each action below *)
(* is one such segment: Receive is the handler from its entry to its first *)
(* await (or to its response), and the ...Done actions resume a task when  *)
(* the network call it awaits returns or fails.  An await of a promise     *)
(* that is already settled (sendWhatsAppMessage of an empty string, the    *)
(* throw of generateTitles on an empty topic) resumes in the same          *)
(* microtask drain, before any other handler can run, so it does not end   *)
(* a segment.  The second await of sendWhatsAppMessageWithButtons          *)
(* (response.text / response.json) touches no shared state and is part of  *)
(* GreetDone.                                                              *)
(*                                                                         *)
(* A string whose content the program never inspects is a view             *)
(* [src, lo, hi]: the characters lo..hi-1 of the text named src.           *)
(***************************************************************************)
EXTENDS Integers, Sequences, FiniteSets, TLC

\* ---------------------------------------------------------------- bounds
MaxEntries == 5    \* longest entry list of the search backend taken with every
                   \* content (longer lists are taken with chosen contents)
NReq == 2          \* webhook deliveries in one behaviour (one more when all
                   \* come from the same sender)
NUsers == 2        \* distinct senders
MaxBody == 8200    \* longest body handed to sendWhatsAppMessage on its own

\* ------------------------------------------------------ program constants
MAX_MESSAGE_LENGTH == 4096
GREETING_LEN == 24
PROMPT_TOPIC_LEN == 47
PROMPT_JOURNAL_LEN == 45
RETRY_TOPIC_LEN == 48
NO_JOURNALS_LEN == 48
RETRY_JOURNAL_LEN == 43
MAX_RESULTS == 20

Tasks == 1..(NReq + 1)
Users == 1..NUsers
Ids == Tasks       \* every delivery can carry an identifier of its own

Min(a, b) == IF a < b THEN a ELSE b
Max(a, b) == IF a > b THEN a ELSE b

\* ---------------------------------------------------------------- strings
Str(name, n) == [src |-> name, lo |-> 0, hi |-> n]
length(s) == s.hi - s.lo

\* String.prototype.slice(a, b) for 0 <= a: both ends are clamped to the length
slice(s, a, b) ==
  LET from == Min(a, length(s))
      to == Min(b, length(s))
  IN [src |-> s.src, lo |-> s.lo + from, hi |-> s.lo + Max(from, to)]

GREETING == Str("Hello! Choose an option:", GREETING_LEN)
PROMPT_TOPIC == Str("Please enter the topic for your research paper:", PROMPT_TOPIC_LEN)
PROMPT_JOURNAL == Str("Please enter the journal title to search for:", PROMPT_JOURNAL_LEN)
RETRY_TOPIC == Str("Error processing your message. Please try again.", RETRY_TOPIC_LEN)
NO_JOURNALS == Str("No journals found matching your search criteria.", NO_JOURNALS_LEN)
RETRY_JOURNAL == Str("Error searching journals. Please try again.", RETRY_JOURNAL_LEN)

\* the two choices sendGreeting offers
GreetingButtons == <<"get_topics", "search_journals">>

\* ------------------------------------------------------------------ state
VARIABLES processedMessages, userState, task, verification, ranking

vars == <<processedMessages, userState, task, verification, ranking>>

\* userState[phoneNumber]: "undefined" is an absent key (NoPending)
Undefined == "undefined"
WAITING_TOPIC == "waiting_for_topic"
WAITING_JOURNAL == "waiting_for_journal_title"

\* req.body of a delivery.  hasMessage: the envelope holds messages[0];
\* text: text.body ("" when the message has no text);
\* interactive: "absent", the button_reply.id, or "no_button_reply" for an
\* interactive payload without button_reply.
Texts == {"", "a"}
ButtonIds == {"get_topics", "search_journals", "other_id"}
Envelopes ==
  { [hasMessage |-> FALSE, from |-> 1, id |-> 1, text |-> "", interactive |-> "absent"] }
  \cup [hasMessage : {TRUE}, from : Users, id : Ids, text : Texts, interactive : {"absent"}]
  \cup [hasMessage : {TRUE}, from : Users, id : Ids, text : {""},
        interactive : ButtonIds \cup {"no_button_reply"}]

NoReq == [hasMessage |-> FALSE, from |-> 0, id |-> 0, text |-> "", interactive |-> "absent"]
NoStr == Str("", 0)

\* One task per delivery.  pc: where the handler is suspended; k: what the
\* text send in flight is for; message, i: the arguments and loop index of
\* the sendWhatsAppMessage call in flight.  The remaining fields record what
\* the task has done: res the HTTP responses, sent the outbound requests
\* issued, calls the adapter invocations, backend the backend requests
\* issued, dispatched whether it passed the duplicate check, before the sender's
\* state when the handler was entered, read / wrote whether it read /
\* assigned or deleted a user state, adapterFailed / sendFailed whether an
\* adapter call / an outbound send failed, result the text made of what the
\* adapter returned, atEnd the sender's state when the handler responded.
NewTask ==
  [req |-> NoReq, pc |-> "idle", k |-> "", message |-> NoStr, i |-> 0,
   res |-> <<>>, sent |-> <<>>, calls |-> <<>>, backend |-> 0,
   dispatched |-> FALSE, before |-> "none", read |-> FALSE, wrote |-> FALSE,
   adapterFailed |-> FALSE, sendFailed |-> FALSE, result |-> NoStr, atEnd |-> "running"]

\* verification: the configured VERIFY_TOKEN, the query of the last GET
\* /webhook and what the handler answered.  A query parameter is "undefined"
\* when the request does not carry it.
NoQuery == [mode |-> Undefined, token |-> Undefined, challenge |-> Undefined]
NoResponse == [status |-> 0, body |-> ""]
NoVerification == [secret |-> "secret", query |-> NoQuery, res |-> NoResponse]

\* ranking: the entry list the search backend returned to the last
\* searchJournals call and the list searchJournals returned for it
NoRanking == [entries |-> <<>>, returned |-> <<>>, done |-> FALSE]

Init ==
  /\ processedMessages = {}
  /\ userState = [u \in Users |-> Undefined]
  /\ task = [t \in Tasks |-> NewTask]
  /\ verification = NoVerification
  /\ ranking = NoRanking

\* ------------------------------------------------------ synchronous code
\* The operators below are the synchronous pieces of the handler.  Each maps
\* a world w = [pm, us, tk] (processedMessages, userState, the running
\* task) to the world at the next await or at the response.

\* mutant: an error response forgets the identifier so that it can be retried
respond_forgetOnError(w, status) ==
  [w EXCEPT !.pm = IF status = 500 THEN @ \ {w.tk.req.id} ELSE @,
            !.tk.res = Append(@, status),
            !.tk.pc = "done",
            !.tk.atEnd = w.us[w.tk.req.from]]

\* res.status(..).send(..) / res.sendStatus(..): the handler ends here
respond(w, status) ==
  [w EXCEPT !.tk.res = Append(@, status),
            !.tk.pc = "done",
            !.tk.atEnd = w.us[w.tk.req.from]]

\* mutant: the whole map is reset
deleteState_everyone(w) ==
  [w EXCEPT !.us = [u \in Users |-> Undefined], !.tk.wrote = TRUE]

\* mutant: the state is left in place
deleteState_forgotten(w) == w

\* delete userState[phoneNumber]
deleteState(w) ==
  [w EXCEPT !.us[w.tk.req.from] = Undefined, !.tk.wrote = TRUE]

\* mutant: the state is not stored
setState_dropped(w, value) == w

\* userState[phoneNumber] = value
setState(w, value) ==
  [w EXCEPT !.us[w.tk.req.from] = value, !.tk.wrote = TRUE]

\* mutant: the journal branch answers without resetting the state
afterSend_journalStateKept(w, k) ==
  CASE k = "prompt" -> respond(w, 200)
    [] k = "titles" -> respond(deleteState(w), 200)
    [] k = "journals" -> respond(w, 200)
    [] k \in {"retry_topic", "retry_journal"} -> respond(deleteState(w), 200)
    [] k = "caller" -> [w EXCEPT !.tk.pc = "returned"]

\* the code that follows an awaited sendWhatsAppMessage which returned; k
\* names the call site
afterSend(w, k) ==
  CASE k = "prompt" -> respond(w, 200)
    [] k \in {"titles", "journals"} -> respond(deleteState(w), 200)
    [] k \in {"retry_topic", "retry_journal"} -> respond(deleteState(w), 200)
    [] k = "caller" -> [w EXCEPT !.tk.pc = "returned"]

\* mutant: the chunk is one character longer than the loop step
sendLoop_longChunk(w, message, i, k) ==
  IF i < length(message)
    THEN LET chunk == slice(message, i, i + MAX_MESSAGE_LENGTH + 1)
         IN [w EXCEPT !.tk.sent = Append(@, [to |-> w.tk.req.from, type |-> "text",
                                             body |-> chunk, buttons |-> <<>>]),
                      !.tk.pc = "send", !.tk.k = k,
                      !.tk.message = message, !.tk.i = i]
    ELSE afterSend(w, k)

\* sendWhatsAppMessage from loop index i on: issue the fetch of the next
\* chunk and suspend, or return to the caller when the loop is over
sendLoop(w, message, i, k) ==
  IF i < length(message)
    THEN LET chunk == slice(message, i, i + MAX_MESSAGE_LENGTH)
         IN [w EXCEPT !.tk.sent = Append(@, [to |-> w.tk.req.from, type |-> "text",
                                             body |-> chunk, buttons |-> <<>>]),
                      !.tk.pc = "send", !.tk.k = k,
                      !.tk.message = message, !.tk.i = i]
    ELSE afterSend(w, k)

sendWhatsAppMessage(w, message, k) == sendLoop(w, message, 0, k)

\* the code that runs when an awaited sendWhatsAppMessage threw
sendThrew(w, k) ==
  CASE k = "prompt" -> respond(w, 500)
    [] k = "titles" -> sendWhatsAppMessage(w, RETRY_TOPIC, "retry_topic")
    [] k = "journals" -> sendWhatsAppMessage(w, RETRY_JOURNAL, "retry_journal")
    [] k \in {"retry_topic", "retry_journal"} -> respond(w, 500)
    [] k = "caller" -> [w EXCEPT !.tk.pc = "threw"]

\* mutant: the greeting already puts the user into the topic state
sendGreeting_presetsTopic(w) ==
  [w EXCEPT !.tk.sent = Append(@, [to |-> w.tk.req.from, type |-> "interactive",
                                   body |-> GREETING, buttons |-> GreetingButtons]),
            !.us[w.tk.req.from] = WAITING_TOPIC,
            !.tk.pc = "greet"]

\* sendGreeting -> sendWhatsAppMessageWithButtons: one interactive message
sendGreeting(w) ==
  [w EXCEPT !.tk.sent = Append(@, [to |-> w.tk.req.from, type |-> "interactive",
                                   body |-> GREETING, buttons |-> GreetingButtons]),
            !.tk.pc = "greet"]

\* generateTitles up to its await: an empty topic throws before the backend
\* is called, and the handler's catch sends the retry message
generateTitles(w, topic) ==
  LET called == [w EXCEPT !.tk.calls = Append(@, [adapter |-> "generateTitles",
                                                  arg |-> topic])]
  IN IF topic = ""
       THEN sendWhatsAppMessage([called EXCEPT !.tk.adapterFailed = TRUE],
                                RETRY_TOPIC, "retry_topic")
       ELSE [called EXCEPT !.tk.backend = @ + 1, !.tk.pc = "gen"]

\* searchJournals up to its await: the fetch is issued for any title
searchJournals(w, title) ==
  [w EXCEPT !.tk.calls = Append(@, [adapter |-> "searchJournals", arg |-> title]),
            !.tk.backend = @ + 1, !.tk.pc = "search"]

\* mutant: a selection is acted on only when the user has no pending state
onInteractive_onlyNoPending(w, buttonId) ==
  CASE buttonId = "no_button_reply" -> respond(w, 500)
    [] buttonId = "get_topics" /\ w.us[w.tk.req.from] = Undefined ->
         sendWhatsAppMessage(setState(w, WAITING_TOPIC), PROMPT_TOPIC, "prompt")
    [] buttonId = "search_journals" /\ w.us[w.tk.req.from] = Undefined ->
         sendWhatsAppMessage(setState(w, WAITING_JOURNAL), PROMPT_JOURNAL, "prompt")
    [] OTHER -> respond(w, 200)

\* mutant: a button reply with an unrecognised id returns without answering
onInteractive_silentOther(w, buttonId) ==
  CASE buttonId = "no_button_reply" -> respond(w, 500)
    [] buttonId = "get_topics" ->
         sendWhatsAppMessage(setState(w, WAITING_TOPIC), PROMPT_TOPIC, "prompt")
    [] buttonId = "search_journals" ->
         sendWhatsAppMessage(setState(w, WAITING_JOURNAL), PROMPT_JOURNAL, "prompt")
    [] OTHER -> [w EXCEPT !.tk.pc = "done", !.tk.atEnd = w.us[w.tk.req.from]]

\* the button branch of the handler
onInteractive(w, buttonId) ==
  CASE buttonId = "no_button_reply" -> respond(w, 500)
    [] buttonId = "get_topics" ->
         sendWhatsAppMessage(setState(w, WAITING_TOPIC), PROMPT_TOPIC, "prompt")
    [] buttonId = "search_journals" ->
         sendWhatsAppMessage(setState(w, WAITING_JOURNAL), PROMPT_JOURNAL, "prompt")
    [] OTHER -> respond(w, 200)

\* mutant: the pending request is taken (the state removed) before the
\* adapter is called
dispatch_takesRequest(w) ==
  LET e == w.tk.req
      r == [w EXCEPT !.tk.read = TRUE]
  IN IF e.interactive # "absent" THEN onInteractive(w, e.interactive)
     ELSE IF w.us[e.from] = WAITING_TOPIC THEN generateTitles(deleteState(r), e.text)
     ELSE IF w.us[e.from] = WAITING_JOURNAL THEN searchJournals(deleteState(r), e.text)
     ELSE IF w.us[e.from] = Undefined THEN sendGreeting(r)
     ELSE respond(r, 200)

\* the handler after the duplicate check
dispatch(w) ==
  LET e == w.tk.req
      r == [w EXCEPT !.tk.read = TRUE]
  IN IF e.interactive # "absent" THEN onInteractive(w, e.interactive)
     ELSE IF w.us[e.from] = WAITING_TOPIC THEN generateTitles(r, e.text)
     ELSE IF w.us[e.from] = WAITING_JOURNAL THEN searchJournals(r, e.text)
     ELSE IF w.us[e.from] = Undefined THEN sendGreeting(r)
     ELSE respond(r, 200)

\* mutant: no duplicate check
webhook_noDuplicateCheck(w) ==
  LET e == w.tk.req
  IN IF ~e.hasMessage THEN respond(w, 200)
     ELSE dispatch([w EXCEPT !.pm = @ \cup {e.id}, !.tk.dispatched = TRUE])

\* app.post("/webhook") from its entry to the first await or the response
webhook(w) ==
  LET e == w.tk.req
  IN IF ~e.hasMessage THEN respond(w, 200)
     ELSE IF e.id \in w.pm THEN respond(w, 200)
     ELSE dispatch([w EXCEPT !.pm = @ \cup {e.id}, !.tk.dispatched = TRUE])

World(t) == [pm |-> processedMessages, us |-> userState, tk |-> task[t]]

Commit(t, w) ==
  /\ processedMessages' = w.pm
  /\ userState' = w.us
  /\ task' = [task EXCEPT ![t] = w.tk]
  /\ UNCHANGED <<verification, ranking>>

\* ----------------------------------------------------------------- actions
\* Senders and message identifiers are opaque to the program, so a delivery
\* brings either one that an earlier delivery used or the least unused one.
Fresh(field) ==
  LET used == {task[t].req[field] : t \in {x \in Tasks : task[x].req.hasMessage}}
  IN 1..(Cardinality(used) + 1)

\* A delivery with a sender among `senders` arrives and the handler runs to
\* its first await; deliveries are numbered in arrival order.
Arrive(t, senders) ==
  /\ task[t].pc = "idle"
  /\ IF t = 1 THEN TRUE ELSE task[t - 1].pc # "idle"
  /\ \E e \in Envelopes :
       /\ e.from \in senders
       /\ e.hasMessage => e.from \in Fresh("from") /\ e.id \in Fresh("id")
       /\ LET w == World(t)
              b == IF e.hasMessage THEN userState[e.from] ELSE "none"
          IN Commit(t, webhook([w EXCEPT !.tk.req = e, !.tk.before = b]))

\* one of NReq deliveries of any senders
Receive(t) == t <= NReq /\ Arrive(t, Users)

\* one of NReq + 1 deliveries, all of one sender
ReceiveSameUser(t) == Arrive(t, {1})

\* one of NReq + 1 deliveries, the first of one user and the others of
\* another user
ReceiveOtherUser(t) == IF t = 1 THEN Arrive(t, {1}) ELSE Arrive(t, {2})

\* lengths of the trimmed text the generative backend returns: empty, or
\* one character more than a chunk holds (SendSpec covers every length)
TitleLens == {0, MAX_MESSAGE_LENGTH + 1}

\* lengths of the rendered journal list: one character more than a chunk holds
ListLens == {MAX_MESSAGE_LENGTH + 1}

\* model.generateContent returns or fails: the rest of generateTitles and
\* of the topic branch up to the next await
GenDone(t) ==
  /\ task[t].pc = "gen"
  /\ \/ \E n \in TitleLens :
          Commit(t, sendWhatsAppMessage([World(t) EXCEPT !.tk.result = Str("titles", n)],
                                        Str("titles", n), "titles"))
     \/ Commit(t, sendWhatsAppMessage([World(t) EXCEPT !.tk.adapterFailed = TRUE],
                                      RETRY_TOPIC, "retry_topic"))

\* the search fetch returns or fails: the rest of searchJournals and of the
\* journal branch up to the next await; n is journals.length
SearchDone(t) ==
  /\ task[t].pc = "search"
  /\ \/ \E n \in {0, 1, MAX_RESULTS} :
          IF n = 0
            THEN Commit(t, sendWhatsAppMessage([World(t) EXCEPT !.tk.result = NO_JOURNALS],
                                               NO_JOURNALS, "journals"))
            ELSE \E len \in ListLens :
                   Commit(t, sendWhatsAppMessage(
                                [World(t) EXCEPT !.tk.result = Str("journal_list", len)],
                                Str("journal_list", len), "journals"))
     \/ Commit(t, sendWhatsAppMessage([World(t) EXCEPT !.tk.adapterFailed = TRUE],
                                      RETRY_JOURNAL, "retry_journal"))

\* mutant: a failed chunk is logged and the loop goes on
SendDone_continueOnError(t) ==
  /\ task[t].pc = "send"
  /\ \/ Commit(t, sendLoop(World(t), task[t].message,
                           task[t].i + MAX_MESSAGE_LENGTH, task[t].k))
     \/ Commit(t, sendLoop([World(t) EXCEPT !.tk.sendFailed = TRUE], task[t].message,
                           task[t].i + MAX_MESSAGE_LENGTH, task[t].k))

\* the fetch of a text chunk returns: ok continues the loop of
\* sendWhatsAppMessage, a failure throws to the caller
SendDone(t) ==
  /\ task[t].pc = "send"
  /\ \/ Commit(t, sendLoop(World(t), task[t].message,
                           task[t].i + MAX_MESSAGE_LENGTH, task[t].k))
     \/ Commit(t, sendThrew([World(t) EXCEPT !.tk.sendFailed = TRUE], task[t].k))

\* the fetch of the greeting returns: the handler responds 200, or 500 when
\* sendWhatsAppMessageWithButtons threw
GreetDone(t) ==
  /\ task[t].pc = "greet"
  /\ \/ Commit(t, respond(World(t), 200))
     \/ Commit(t, respond([World(t) EXCEPT !.tk.sendFailed = TRUE], 500))

Next ==
  \E t \in Tasks :
    \/ Receive(t)
    \/ GenDone(t)
    \/ SearchDone(t)
    \/ SendDone(t)
    \/ GreetDone(t)

Spec == Init /\ [][Next]_vars

\* the same program when every adapter call and every outbound send
\* eventually returns or fails: a suspended handler is eventually resumed
FairSpec ==
  /\ Spec
  /\ \A t \in Tasks :
       /\ WF_vars(GenDone(t)) /\ WF_vars(SearchDone(t))
       /\ WF_vars(SendDone(t)) /\ WF_vars(GreetDone(t))

\* the same program when one user sends all the deliveries
SameUserNext ==
  \E t \in Tasks :
    \/ ReceiveSameUser(t)
    \/ GenDone(t)
    \/ SearchDone(t)
    \/ SendDone(t)
    \/ GreetDone(t)

SameUserSpec == Init /\ [][SameUserNext]_vars

\* the same program when a delivery of one user is followed by deliveries
\* of another user
OtherUserNext ==
  \E t \in Tasks :
    \/ ReceiveOtherUser(t)
    \/ GenDone(t)
    \/ SearchDone(t)
    \/ SendDone(t)
    \/ GreetDone(t)

OtherUserSpec == Init /\ [][OtherUserNext]_vars

\* ------------------------------------------- sendWhatsAppMessage on its own
\* A caller is about to call sendWhatsAppMessage(to, message) with a body of
\* any length up to MaxBody.
SendInit ==
  /\ processedMessages = {}
  /\ userState = [u \in Users |-> Undefined]
  /\ \E n \in 0..MaxBody :
       task = [t \in Tasks |->
                 IF t = 1
                   THEN [NewTask EXCEPT !.req.from = 1, !.pc = "call",
                                        !.message = Str("body", n)]
                   ELSE NewTask]
  /\ verification = NoVerification
  /\ ranking = NoRanking

\* the call: the loop runs up to its first await
SendCall(t) ==
  /\ task[t].pc = "call"
  /\ Commit(t, sendWhatsAppMessage(World(t), task[t].message, "caller"))

SendNext == \E t \in Tasks : SendCall(t) \/ SendDone(t)

SendSpec == SendInit /\ [][SendNext]_vars

\* ------------------------------------------------- app.get("/webhook")
\* values of a query parameter: absent, present and empty, or a string
Modes == {Undefined, "", "subscribe", "unsubscribe"}
Tokens == {Undefined, "", "secret", "wrong"}
Challenges == {Undefined, "", "1158201444", "challenge"}
Secrets == {"secret", Undefined}    \* process.env.VERIFY_TOKEN, set or not

\* ToBoolean of a query parameter
truthy(x) == x \notin {Undefined, ""}

\* the handler: what it answers to query q; NoResponse when it ends without
\* answering.  send(undefined) sends an empty body, sendStatus(403) the
\* status text.
getWebhook(secret, q) ==
  IF truthy(q.mode) /\ truthy(q.token)
    THEN IF q.mode = "subscribe" /\ q.token = secret
           THEN [status |-> 200,
                 body |-> IF q.challenge = Undefined THEN "" ELSE q.challenge]
           ELSE [status |-> 403, body |-> "Forbidden"]
    ELSE NoResponse

VerifyInit ==
  /\ processedMessages = {}
  /\ userState = [u \in Users |-> Undefined]
  /\ task = [t \in Tasks |-> NewTask]
  /\ \E secret \in Secrets : verification = [NoVerification EXCEPT !.secret = secret]
  /\ ranking = NoRanking

\* a GET /webhook arrives and the handler runs
VerifyGet ==
  /\ \E q \in [mode : Modes, token : Tokens, challenge : Challenges] :
       verification' = [verification EXCEPT !.query = q,
                                            !.res = getWebhook(verification.secret, q)]
  /\ UNCHANGED <<processedMessages, userState, task, ranking>>

VerifyNext == VerifyGet

VerifySpec == VerifyInit /\ [][VerifyNext]_vars

\* ------------------------------------------- the list searchJournals returns
\* An entry of the backend is [title, present, metric]: title stands for
\* dc:title (the position in the list, so that records can be told apart),
\* present says whether citeScoreYearInfoList.citeScoreCurrentMetric is there
\* and metric is its value, a positive numeric string.  NA stands for the
\* string "N/A" in citeScore; no score is negative.
NA == -1
Metrics == {3, 5, 9}
RawMetrics == {[present |-> FALSE, metric |-> 0]} \cup [present : {TRUE}, metric : Metrics]

\* the callback of map
toRecord(journal) ==
  [title |-> journal.title,
   citeScore |-> IF journal.present THEN journal.metric ELSE NA]

\* mutant: numeric scores are compared the other way round
compareFn_ascending(a, b) ==
  IF a.citeScore = NA THEN 1
  ELSE IF b.citeScore = NA THEN -1
  ELSE a.citeScore - b.citeScore

\* the comparator of sort
compareFn(a, b) ==
  IF a.citeScore = NA THEN 1
  ELSE IF b.citeScore = NA THEN -1
  ELSE b.citeScore - a.citeScore

\* Array.prototype.sort as the runtime of the program (V8) computes it for
\* fewer than 64 elements: the leading run is found and reversed when it is
\* strictly descending, and the rest is inserted by binary search.  The
\* comparator is not consistent (two "N/A" compare as 1 both ways), so the
\* result is what this algorithm makes of it.
RECURSIVE RunEnd(_, _, _)
RunEnd(a, idx, descending) ==
  IF idx = Len(a) THEN idx
  ELSE LET order == compareFn(a[idx + 1], a[idx])
       IN IF (descending /\ order >= 0) \/ (~descending /\ order < 0) THEN idx
          ELSE RunEnd(a, idx + 1, descending)

Reverse(a) == [j \in 1..Len(a) |-> a[Len(a) + 1 - j]]

\* the array with its leading run in order, and the length of the run
CountAndMakeRun(a) ==
  LET descending == compareFn(a[2], a[1]) < 0
      runLength == RunEnd(a, 2, descending)
  IN [array |-> IF descending
                  THEN Reverse(SubSeq(a, 1, runLength)) \o SubSeq(a, runLength + 1, Len(a))
                  ELSE a,
      runLength |-> runLength]

\* the position at which pivot goes into a[left..right-1]
RECURSIVE Search(_, _, _, _)
Search(a, pivot, left, right) ==
  IF left >= right THEN left
  ELSE LET mid == left + ((right - left) \div 2)
       IN IF compareFn(pivot, a[mid]) < 0
            THEN Search(a, pivot, left, mid)
            ELSE Search(a, pivot, mid + 1, right)

\* a[1..start-1] is in order: insert a[start], a[start+1], ...
RECURSIVE BinaryInsertionSort(_, _)
BinaryInsertionSort(a, start) ==
  IF start > Len(a) THEN a
  ELSE LET pivot == a[start]
           left == Search(a, pivot, 1, start)
       IN BinaryInsertionSort(SubSeq(a, 1, left - 1) \o <<pivot>>
                                \o SubSeq(a, left, start - 1)
                                \o SubSeq(a, start + 1, Len(a)),
                              start + 1)

sort(a) ==
  IF Len(a) < 2 THEN a
  ELSE LET run == CountAndMakeRun(a)
       IN BinaryInsertionSort(run.array, run.runLength + 1)

\* journals.map(..).sort(..).slice(0, 20)
searchJournalsReturn(entries) ==
  LET records == [j \in 1..Len(entries) |-> toRecord(entries[j])]
      sorted == sort(records)
  IN SubSeq(sorted, 1, Min(MAX_RESULTS, Len(sorted)))

\* entry lists: every list of at most MaxEntries entries, and lists longer
\* than the result may be, with rising metrics or with the metrics
\* 5, absent, 9, absent, 3 repeated from any of the five
Entry(j, m) == [title |-> j, present |-> m.present, metric |-> m.metric]
Absent == [present |-> FALSE, metric |-> 0]
Known(n) == [present |-> TRUE, metric |-> n]
Cycle == <<Known(5), Absent, Known(9), Absent, Known(3)>>
ShortLists ==
  UNION {{[j \in 1..n |-> Entry(j, f[j])] : f \in [1..n -> RawMetrics]} : n \in 0..MaxEntries}
LongLists ==
  UNION {{[j \in 1..n |-> Entry(j, Known(j))]}
         \cup {[j \in 1..n |-> Entry(j, Cycle[((j + p) % 5) + 1])] : p \in 0..4}
           : n \in MAX_RESULTS..(MAX_RESULTS + MaxEntries)}

RankInit ==
  /\ processedMessages = {}
  /\ userState = [u \in Users |-> Undefined]
  /\ task = [t \in Tasks |-> NewTask]
  /\ verification = NoVerification
  /\ \E entries \in ShortLists \cup LongLists :
       ranking = [NoRanking EXCEPT !.entries = entries]

\* searchJournals returns for the entries the backend delivered
SearchReturn ==
  /\ ~ranking.done
  /\ ranking' = [ranking EXCEPT !.returned = searchJournalsReturn(ranking.entries),
                                !.done = TRUE]
  /\ UNCHANGED <<processedMessages, userState, task, verification>>

RankNext == SearchReturn

RankSpec == RankInit /\ [][RankNext]_vars

\* ------------------------------------------------------------- properties
Received(t) == task[t].pc # "idle" /\ task[t].req.hasMessage
Sender(t) == task[t].req.from
Ended(t) == task[t].pc = "done"

\* a ++ b for views: adjacent pieces of one text join, others do not
Garbled == [src |-> "garbled", lo |-> 0, hi |-> -1]
Join(a, b) ==
  IF length(a) = 0 THEN b
  ELSE IF length(b) = 0 THEN a
  ELSE IF a.src = b.src /\ a.hi = b.lo THEN [src |-> a.src, lo |-> a.lo, hi |-> b.hi]
  ELSE Garbled

RECURSIVE Concat(_)
Concat(chunks) ==
  IF chunks = <<>> THEN NoStr
  ELSE Join(Concat(SubSeq(chunks, 1, Len(chunks) - 1)), chunks[Len(chunks)].body)

SameText(a, b) == (length(a) = 0 /\ length(b) = 0) \/ a = b
CeilDiv(n, d) == (n + d - 1) \div d

\* C1: of the deliveries that carry one message identifier exactly one is
\* dispatched; every other one is answered 200 and has read no user state,
\* written none, called no adapter and sent nothing.
C1_Idempotent ==
  \A id \in Ids :
    LET D == {t \in Tasks : Received(t) /\ task[t].req.id = id}
    IN D # {} =>
         \E d \in D :
           /\ task[d].dispatched
           /\ \A o \in D \ {d} :
                /\ ~task[o].dispatched
                /\ task[o].res = <<200>>
                /\ ~task[o].read /\ ~task[o].wrote
                /\ task[o].calls = <<>> /\ task[o].backend = 0
                /\ task[o].sent = <<>>

\* a redelivery was answered while the first delivery was still suspended
C1_Witness ==
  \E t, u \in Tasks :
    /\ t < u /\ Received(t) /\ Received(u) /\ task[t].req.id = task[u].req.id
    /\ task[t].pc \in {"gen", "search", "send", "greet"}
    /\ task[u].res = <<200>>

Pending == {WAITING_TOPIC, WAITING_JOURNAL}
Msg(to, s) == [to |-> to, type |-> "text", body |-> s, buttons |-> <<>>]
StateFor(buttonId) == IF buttonId = "get_topics" THEN WAITING_TOPIC ELSE WAITING_JOURNAL
PromptFor(buttonId) == IF buttonId = "get_topics" THEN PROMPT_TOPIC ELSE PROMPT_JOURNAL

\* task t is a dispatched (non-duplicate) button selection with one of the
\* two recognised ids
Selection(t) ==
  /\ task[t].dispatched
  /\ task[t].req.interactive \in {"get_topics", "search_journals"}

\* the step in which delivery t passes the duplicate check
Dispatch(t) == task[t].pc = "idle" /\ task'[t].dispatched

\* what a selection from a user in one of the states `from` does: in the
\* step that dispatches it the user's state becomes the state of the chosen
\* id and the one prompt is sent; over the whole dispatch that prompt is the
\* only send and no adapter is called
SelectionStep(from) ==
  \A t \in Tasks :
    LET e == task'[t].req
    IN Dispatch(t) /\ e.interactive \in {"get_topics", "search_journals"}
         /\ userState[e.from] \in from
       => /\ userState'[e.from] = StateFor(e.interactive)
          /\ task'[t].sent = <<Msg(e.from, PromptFor(e.interactive))>>

SelectionEffects(from) ==
  \A t \in Tasks :
    Selection(t) /\ task[t].before \in from =>
      /\ task[t].sent = <<Msg(Sender(t), PromptFor(task[t].req.interactive))>>
      /\ task[t].calls = <<>> /\ task[t].backend = 0

\* C2: a non-duplicate selection from a user in NoPending sets the user's
\* state to AwaitingTopic (get_topics) or AwaitingJournalQuery
\* (search_journals), sends exactly one text, the matching prompt, and calls
\* no adapter.
C2_SelectionFromNoPending ==
  /\ [][SelectionStep({Undefined})]_vars
  /\ []SelectionEffects({Undefined})

\* both selections were dispatched from NoPending and answered
C2_Witness ==
  \E t, u \in Tasks :
    /\ Selection(t) /\ task[t].req.interactive = "get_topics"
    /\ Selection(u) /\ task[u].req.interactive = "search_journals"
    /\ task[t].before = Undefined /\ task[u].before = Undefined
    /\ task[t].res = <<200>> /\ task[u].res = <<200>>

\* C3 as claimed: a selection received in AwaitingTopic or
\* AwaitingJournalQuery leaves the user's state unchanged and sends nothing.
C3_SelectionIgnoredWhenPending ==
  \A t \in Tasks :
    Selection(t) /\ task[t].before \in Pending =>
      ~task[t].wrote /\ task[t].sent = <<>>

\* C3 amended: a selection received in AwaitingTopic or AwaitingJournalQuery
\* is handled as in NoPending: the user's state becomes the state of the
\* chosen id, exactly one text, the matching prompt, is sent and no adapter
\* is called.
C3_SelectionWhenPending ==
  /\ [][SelectionStep(Pending)]_vars
  /\ []SelectionEffects(Pending)

\* a user waiting for a journal title chose get_topics and was answered
C3_Witness ==
  \E t \in Tasks :
    /\ Selection(t) /\ task[t].req.interactive = "get_topics"
    /\ task[t].before = WAITING_JOURNAL
    /\ task[t].res = <<200>>

\* C4 as claimed: a non-duplicate event from a user without recorded state
\* that is not a recognised selection (text, no text, or a button reply with
\* another id) sends exactly one interactive greeting with the two choices
\* and leaves the state NoPending.
C4_GreetingForAnyOtherEvent ==
  \A t \in Tasks :
    /\ task[t].dispatched /\ Ended(t)
    /\ task[t].before = Undefined
    /\ task[t].req.interactive \in {"absent", "other_id"}
    => /\ task[t].sent = <<[to |-> Sender(t), type |-> "interactive", body |-> GREETING,
                            buttons |-> <<"get_topics", "search_journals">>]>>
       /\ ~task[t].wrote

\* task t is a dispatched event without selection payload from a user whose
\* state was AwaitingTopic or AwaitingJournalQuery
PendingText(t) ==
  /\ task[t].dispatched
  /\ task[t].req.interactive = "absent"
  /\ task[t].before \in Pending

AdapterFor(state) == IF state = WAITING_TOPIC THEN "generateTitles" ELSE "searchJournals"
RetryFor(state) == IF state = WAITING_TOPIC THEN RETRY_TOPIC ELSE RETRY_JOURNAL

\* C5 as claimed: when the adapter call of a text event of a user in
\* AwaitingTopic or AwaitingJournalQuery fails, exactly one message, the
\* retry message, is sent, the user's state is NoPending when the dispatch
\* ends and the response is 200.
C5_AdapterFailure ==
  \A t \in Tasks :
    PendingText(t) /\ task[t].adapterFailed /\ Ended(t) =>
      /\ task[t].sent = <<Msg(Sender(t), RetryFor(task[t].before))>>
      /\ task[t].atEnd = Undefined
      /\ task[t].res = <<200>>

\* C6 as claimed: a dispatch in which an adapter call or an outbound send
\* failed ends with the user's state NoPending.
C6_ResetAfterAnyError ==
  \A t \in Tasks :
    task[t].dispatched /\ Ended(t) /\ (task[t].adapterFailed \/ task[t].sendFailed)
      => task[t].atEnd = Undefined

\* C7 as claimed: every POST whose envelope holds a message is answered 200
\* whatever adapter call or send failed; 500 comes only from an exception
\* while the envelope is parsed.
C7_ErrorsNeverReachResponse ==
  \A t \in Tasks :
    Received(t) /\ Ended(t) =>
      /\ task[t].res \in {<<200>>, <<500>>}
      /\ task[t].res = <<500>> => task[t].req.interactive = "no_button_reply"

\* the part of C8 that is about one dispatch: the adapter of the pending
\* state is invoked once with the event's text, nothing is sent before it
\* returns, and when all went well what was sent is the result and the
\* user's state is NoPending at the end
ServedOnce(t) ==
  /\ task[t].calls = <<[adapter |-> AdapterFor(task[t].before), arg |-> task[t].req.text]>>
  /\ task[t].pc \in {"gen", "search"} => task[t].sent = <<>> /\ task[t].backend = 1
  /\ Ended(t) /\ ~task[t].adapterFailed /\ ~task[t].sendFailed =>
       /\ \A j \in 1..Len(task[t].sent) :
            task[t].sent[j].to = Sender(t) /\ task[t].sent[j].type = "text"
       /\ SameText(Concat(task[t].sent), task[t].result)
       /\ task[t].result.src \in
            IF task[t].before = WAITING_TOPIC THEN {"titles"}
            ELSE {"journal_list", NO_JOURNALS.src}
       /\ task[t].backend = 1
       /\ task[t].atEnd = Undefined
       /\ task[t].res = <<200>>

\* the adapter call or the send of the result of task t is in flight
Serving(t) ==
  \/ task[t].pc \in {"gen", "search"}
  \/ task[t].pc = "send" /\ task[t].k \in {"titles", "journals"}

\* C8 as claimed: a text event of a user in AwaitingTopic or
\* AwaitingJournalQuery invokes the matching adapter exactly once with the
\* text, the result is sent after the adapter returned, the state is
\* NoPending at the end, and the state is still the pending state while the
\* adapter call is in flight.
C8_ServeAndStayPending ==
  \A t \in Tasks :
    PendingText(t) =>
      /\ ServedOnce(t)
      /\ task[t].pc \in {"gen", "search"} => userState[Sender(t)] = task[t].before

\* C8 amended: as claimed, except that while the adapter call is in flight
\* the user's state is the pending state only as far as this dispatch is
\* concerned: the dispatch does not write the user's state before the result
\* is sent, but another event of the same user can change it meanwhile.
C8_ServeWithoutEarlyWrite ==
  \A t \in Tasks :
    PendingText(t) =>
      /\ ServedOnce(t)
      /\ Serving(t) => ~task[t].wrote

\* an adapter was called with a non-empty text, its result went out in more
\* than one chunk and the user's state was reset
C8_Witness ==
  \E t \in Tasks :
    /\ PendingText(t)
    /\ task[t].req.text # ""
    /\ ~task[t].adapterFailed /\ ~task[t].sendFailed
    /\ Len(task[t].sent) > 1
    /\ task[t].res = <<200>> /\ task[t].atEnd = Undefined

\* once anything of a delivery has taken effect its identifier is recorded
RecordedFirst ==
  \A t \in Tasks :
    /\ Received(t)
    /\ \/ task[t].read \/ task[t].wrote
       \/ task[t].calls # <<>> \/ task[t].backend > 0 \/ task[t].sent # <<>>
       \/ task[t].dispatched
    => task[t].req.id \in processedMessages

\* a redelivery of a recorded identifier is answered 200 and does nothing
RedeliveryInert ==
  \A t \in Tasks :
    Received(t) /\ ~task[t].dispatched =>
      /\ task[t].res = <<200>>
      /\ ~task[t].read /\ ~task[t].wrote
      /\ task[t].calls = <<>> /\ task[t].backend = 0 /\ task[t].sent = <<>>
      /\ \E d \in 1..(t - 1) : task[d].dispatched /\ task[d].req.id = task[t].req.id

\* C9: the identifier is in ProcessedMessageIds before the dispatch writes
\* user state, calls an adapter or sends, it is never removed, also not when
\* the dispatch ends with 500, and a redelivery of it is answered 200 and
\* does nothing.
C9_RecordedBeforeDispatch ==
  /\ []RecordedFirst
  /\ [][processedMessages \subseteq processedMessages']_vars
  /\ []RedeliveryInert

\* a delivery ended with 500 and its redelivery was answered 200
C9_Witness ==
  \E t, u \in Tasks :
    /\ t < u /\ Received(t) /\ Received(u) /\ task[t].req.id = task[u].req.id
    /\ task[t].res = <<500>>
    /\ task[u].res = <<200>> /\ ~task[u].dispatched

\* C10: when sendWhatsAppMessage returns, it has issued ceil(L / 4096)
\* sends, each of at most 4096 characters, whose bodies concatenated in send
\* order are the message; so an empty message issues no send.
C10_Chunking ==
  \A t \in Tasks :
    task[t].pc = "returned" =>
      LET L == length(task[t].message)
      IN /\ Len(task[t].sent) = CeilDiv(L, 4096)
         /\ \A j \in 1..Len(task[t].sent) :
              /\ task[t].sent[j].type = "text"
              /\ length(task[t].sent[j].body) <= 4096
              /\ length(task[t].sent[j].body) > 0
         /\ SameText(Concat(task[t].sent), task[t].message)
         /\ (L = 0 => task[t].sent = <<>>)

\* a body that needs a last, partial chunk was sent whole
C10_Witness ==
  \E t \in Tasks :
    /\ task[t].pc = "returned"
    /\ length(task[t].message) > 2 * 4096
    /\ Len(task[t].sent) = 3

\* the chunks sendWhatsAppMessage issued are the first chunks of the message,
\* in order, and the last of them is the one whose send failed
FailedAtChunk(t) ==
  LET k == Len(task[t].sent)
  IN /\ task[t].pc = "threw"
     /\ k >= 1
     /\ (k - 1) * 4096 < length(task[t].message)
     /\ task[t].i = (k - 1) * 4096
     /\ \A j \in 1..k :
          task[t].sent[j] = Msg(Sender(t), slice(task[t].message, (j - 1) * 4096, j * 4096))

\* C11: when the send of the k-th chunk fails, sendWhatsAppMessage has issued
\* the chunks 1..k in order (so 1..k-1 went out before it), it throws to its
\* caller, and it issues no send afterwards.
C11_StopAtFailedChunk ==
  /\ [](\A t \in Tasks : task[t].k = "caller" /\ task[t].sendFailed => FailedAtChunk(t))
  /\ [][\A t \in Tasks : task[t].k = "caller" /\ task[t].sendFailed
                            => task'[t].sent = task[t].sent]_vars

\* the second of three chunks failed and the third was never issued
C11_Witness ==
  \E t \in Tasks :
    /\ task[t].pc = "threw" /\ task[t].sendFailed
    /\ length(task[t].message) > 2 * 4096
    /\ Len(task[t].sent) = 2

\* C12 as claimed: a verification GET is answered 200 with the challenge
\* exactly when mode is "subscribe" and the token is the configured secret;
\* a request without mode and without token gets no response; every other
\* request is answered 403.
C12_VerificationResponse ==
  LET q == verification.query
      res == verification.res
  IN q # NoQuery \/ res # NoResponse =>
       IF q.mode = "subscribe" /\ q.token # Undefined /\ q.token = verification.secret
         THEN /\ res.status = 200
              /\ res.body = IF q.challenge = Undefined THEN "" ELSE q.challenge
       ELSE IF q.mode = Undefined /\ q.token = Undefined
         THEN res = NoResponse
       ELSE res.status = 403

\* the search of task t, a text event of a user in AwaitingJournalQuery,
\* returned no record
ZeroRecords(t) ==
  /\ PendingText(t) /\ task[t].before = WAITING_JOURNAL
  /\ ~task[t].adapterFailed
  /\ task[t].result = NO_JOURNALS

C14_RankedAndCapped ==
  LET out == ranking.returned
      n == Len(ranking.entries)
  IN ranking.done =>
       /\ Len(out) = Min(n, 20)
       /\ \A j \in 1..Len(out) :
            /\ out[j].title \in 1..n
            /\ out[j] = toRecord(ranking.entries[out[j].title])
       /\ \A i, j \in 1..Len(out) :
            i < j =>
              /\ out[i].title # out[j].title
              /\ out[i].citeScore = NA => out[j].citeScore = NA
              /\ out[j].citeScore # NA => out[i].citeScore >= out[j].citeScore

\* the list 5, unknown, 9, unknown, 3 came back as 9, 5, 3, unknown, unknown
C14_Witness ==
  /\ ranking.done
  /\ [j \in 1..Len(ranking.entries) |-> ranking.entries[j].metric] = <<5, 0, 9, 0, 3>>
  /\ [j \in 1..Len(ranking.returned) |-> ranking.returned[j].citeScore] = <<9, 5, 3, NA, NA>>

\* a text event u of the sender of t is dispatched while t is suspended in
\* its adapter call, and the only events of that sender that wrote the state
\* so far are selections that came before t
RaceStep(t, u) ==
  /\ t # u
  /\ PendingText(t) /\ task[t].pc \in {"gen", "search"}
  /\ Dispatch(u)
  /\ task'[u].req.interactive = "absent" /\ task'[u].req.from = Sender(t)
  /\ \A v \in Tasks \ {t, u} :
       Received(v) /\ Sender(v) = Sender(t) /\ task[v].wrote => v < t /\ Selection(v)

\* C15: a text event of a user that arrives while an earlier text event of
\* the same user is suspended in its adapter call reads the same pending
\* state and invokes the adapter too; each of the two that meets no failure
\* sends its own result, so that one selection is served twice.
C15_SameUserRace ==
  /\ [][\A t, u \in Tasks :
          RaceStep(t, u) =>
            /\ task'[u].before = task[t].before
            /\ task'[u].calls = <<[adapter |-> AdapterFor(task[t].before),
                                   arg |-> task'[u].req.text]>>]_vars
  /\ [](\A t \in Tasks :
          PendingText(t) /\ Ended(t) /\ ~task[t].adapterFailed /\ ~task[t].sendFailed =>
            /\ Len(task[t].calls) = 1
            /\ SameText(Concat(task[t].sent), task[t].result))

\* one selection, two text events after it, two adapter calls that reached
\* the backend and two results sent
C15_Witness ==
  \E s, t, u \in Tasks :
    /\ s < t /\ t < u
    /\ Selection(s) /\ PendingText(t) /\ PendingText(u)
    /\ task[t].before = task[u].before
    /\ \A v \in {t, u} :
         /\ Ended(v) /\ ~task[v].adapterFailed /\ ~task[v].sendFailed
         /\ task[v].backend = 1
         /\ Len(task[v].sent) > 1

\* C16 as claimed: the step in which a dispatch that served a pending
\* request ends does not remove a pending state that a selection of the same
\* user set after that dispatch had begun.
C16_LaterSelectionKept ==
  [][\A t \in Tasks :
       /\ PendingText(t) /\ ~Ended(t) /\ task'[t].pc = "done"
       /\ userState[Sender(t)] \in Pending
       /\ \E s \in Tasks : s > t /\ Selection(s) /\ Sender(s) = Sender(t)
       => userState'[Sender(t)] = userState[Sender(t)]]_vars

\* C17 as claimed: a text event with an empty or absent text from a user in
\* AwaitingTopic makes generateTitles fail before it calls the backend; the
\* retry message is the one message sent and the user's state is NoPending
\* when the dispatch ends.
C17_EmptyTopic ==
  \A t \in Tasks :
    PendingText(t) /\ task[t].before = WAITING_TOPIC /\ task[t].req.text = "" =>
      /\ task[t].calls = <<[adapter |-> "generateTitles", arg |-> ""]>>
      /\ task[t].adapterFailed /\ task[t].backend = 0
      /\ task[t].sent = <<Msg(Sender(t), RETRY_TOPIC)>>
      /\ Ended(t) => task[t].atEnd = Undefined

\* C18: every POST is answered exactly once, with 200 or 500: a handler that
\* was entered eventually ends, it has answered once when it has ended and
\* not at all before, and it never answers twice.
C18_AnsweredOnce ==
  /\ [](\A t \in Tasks :
          /\ Len(task[t].res) = (IF Ended(t) THEN 1 ELSE 0)
          /\ \A j \in 1..Len(task[t].res) : task[t].res[j] \in {200, 500})
  /\ \A t \in Tasks : (task[t].pc # "idle") ~> Ended(t)

\* a delivery was answered 500 after a failed send and another one 200
\* after its adapter had failed
C18_Witness ==
  \E t, u \in Tasks :
    /\ task[t].res = <<500>> /\ task[t].sendFailed
    /\ task[u].res = <<200>> /\ task[u].adapterFailed

\* C19: a step of the handler of a delivery changes the state of no user but
\* its sender (of no user at all when the envelope holds no message), and
\* every outbound message of a delivery goes to its sender.
C19_OnlyTheSender ==
  /\ [][\A t \in Tasks :
          task'[t] # task[t] =>
            \A u \in Users :
              userState'[u] # userState[u] =>
                task'[t].req.hasMessage /\ u = task'[t].req.from]_vars
  /\ [](\A t \in Tasks :
          \A j \in 1..Len(task[t].sent) : task[t].sent[j].to = Sender(t))

\* a user was served and the state removed while the pending state of
\* another user stayed
C19_Witness ==
  \E t, u \in Tasks :
    /\ Selection(t) /\ Ended(t)
    /\ PendingText(u) /\ Sender(u) # Sender(t)
    /\ Ended(u) /\ task[u].wrote /\ task[u].atEnd = Undefined
    /\ userState[Sender(t)] = StateFor(task[t].req.interactive)

\* C20: whenever the state of a user changes to AwaitingTopic or
\* AwaitingJournalQuery, the step is the dispatch of a selection of that
\* user with the matching id (so no free-text event, duplicate delivery or
\* envelope without message does it); and only a dispatched event without
\* selection payload calls an adapter or a backend.
C20_PendingOnlyBySelection ==
  /\ [][\A u \in Users :
          userState'[u] # userState[u] /\ userState'[u] \in Pending =>
            \E t \in Tasks :
              /\ Dispatch(t)
              /\ task'[t].req.hasMessage /\ task'[t].req.from = u
              /\ task'[t].req.interactive \in {"get_topics", "search_journals"}
              /\ userState'[u] = StateFor(task'[t].req.interactive)]_vars
  /\ [](\A t \in Tasks :
          task[t].calls # <<>> \/ task[t].backend > 0 =>
            task[t].dispatched /\ task[t].req.interactive = "absent")

\* a free-text event left its sender in NoPending and a selection made a
\* user pending
C20_Witness ==
  \E t, s \in Tasks :
    /\ task[t].dispatched /\ task[t].req.interactive = "absent"
    /\ task[t].before = Undefined /\ task[t].atEnd = Undefined
    /\ Selection(s) /\ task[s].before = Undefined
    /\ userState[Sender(s)] = StateFor(task[s].req.interactive)
====
